---- MODULE Spec2Model ----
(***************************************************************************)
(* The task store of src/main.rs: TaskManager (an id -> Task map, the      *)
(* next_id allocator) and its flat-file persistence.                       *)
(*                                                                         *)
(* Text is a sequence of one-character strings.  A u32 is kept at its real *)
(* width as two 16-bit limbs <<hi, lo>> (value hi * 65536 + lo), because   *)
(* the model checker's own integers stop at 2^31 - 1.                      *)
(***************************************************************************)
EXTENDS Integers, Sequences, FiniteSets, TLC

VARIABLES
    overflow_checks,  \* the build: TRUE = arithmetic overflow panics, FALSE = it wraps
    pc,               \* "running" | "panicked" : the process holding the store
    tasks,            \* TaskManager.tasks : id -> Task
    next_id,          \* TaskManager.next_id
    order,            \* the order in which tasks.values() visits the map's keys
    file,             \* the backing file: [exists, contents]
    issued,           \* history: every id add_task ever assigned, over all runs
    inserted,         \* history: ids inserted into this store instance (loaded or created)
    removed,          \* history: ids delete_task removed from this store instance
    load_io,          \* history: how the load that built this store instance ended
    failed,           \* history: ids this store instance changed in an operation whose save failed
    fault_budget,     \* environment: how many more I/O calls it will fail
    last,             \* history: the last operation and its outcome
    other             \* a second process on the same file, while the first one is at work

vars == <<overflow_checks, pc, tasks, next_id, order, file, issued, inserted, removed, load_io,
          failed, fault_budget, last, other>>

----------------------------------------------------------------------------
(* Bounds of the exploration *)

MaxCreates == 2
MaxTasks == 2
MaxFaults == 1

----------------------------------------------------------------------------
(* u32 *)

Limb == 65536

U32Of(n) == <<n \div Limb, n % Limb>>

U32_MAX == <<Limb - 1, Limb - 1>>

U32Lt(a, b) == a[1] < b[1] \/ (a[1] = b[1] /\ a[2] < b[2])

\* Ord::max on u32
U32Max(a, b) == IF U32Lt(a, b) THEN b ELSE a

\* x + 1 as the mathematical integer, in limbs (hi = Limb stands for 2^32)
MathSucc(x) == IF x[2] < Limb - 1 THEN <<x[1], x[2] + 1>> ELSE <<x[1] + 1, 0>>

\* x + 1 wrapped to 32 bits, what a build without overflow checks computes
WrappingSucc(x) == IF x = U32_MAX THEN <<0, 0>> ELSE MathSucc(x)

Digits == <<"0", "1", "2", "3", "4", "5", "6", "7", "8", "9">>

IsDigit(c) == \E i \in 1..Len(Digits) : Digits[i] = c

DigitVal(c) == (CHOOSE i \in 1..Len(Digits) : Digits[i] = c) - 1

\* acc * 10 + d in limbs; hi above Limb - 1 means the value left the u32 range
MulAdd10(acc, d) ==
    LET lo == acc[2] * 10 + d
    IN  <<acc[1] * 10 + (lo \div Limb), lo % Limb>>

RECURSIVE ParseDigits(_, _, _)
ParseDigits(s, i, acc) ==
    IF i > Len(s) THEN [ok |-> TRUE, val |-> acc]
    ELSE IF ~IsDigit(s[i]) THEN [ok |-> FALSE, val |-> <<0, 0>>]
    ELSE LET n == MulAdd10(acc, DigitVal(s[i]))
         IN  IF n[1] >= Limb THEN [ok |-> FALSE, val |-> <<0, 0>>]
             ELSE ParseDigits(s, i + 1, n)

\* str::parse::<u32>: an optional leading '+', then one or more ASCII digits,
\* the value at most 4294967295; anything else is Err
ParseU32(s) ==
    IF s = <<>> THEN [ok |-> FALSE, val |-> <<0, 0>>]
    ELSE IF s[1] = "+"
         THEN IF Len(s) = 1 THEN [ok |-> FALSE, val |-> <<0, 0>>]
              ELSE ParseDigits(s, 2, <<0, 0>>)
         ELSE ParseDigits(s, 1, <<0, 0>>)

\* x divided by ten: <<quotient, remainder>>
DivMod10(x) ==
    LET t == (x[1] % 10) * Limb + x[2]
    IN  <<(<<x[1] \div 10, t \div 10>>), t % 10>>

RECURSIVE FormatU32(_)
\* Display for u32 ("{}"): decimal, no sign, no leading zero
FormatU32(x) ==
    LET qr == DivMod10(x)
    IN  IF qr[1] = <<0, 0>> THEN <<Digits[qr[2] + 1]>>
        ELSE Append(FormatU32(qr[1]), Digits[qr[2] + 1])

----------------------------------------------------------------------------
(* TaskStatus, Task *)

TaskStatus == {"Pending", "Completed", "Deleted"}

PendingStr == <<"P", "e", "n", "d", "i", "n", "g">>
CompletedStr == <<"C", "o", "m", "p", "l", "e", "t", "e", "d">>
DeletedStr == <<"D", "e", "l", "e", "t", "e", "d">>

\* Task::new
Task_new(id, title, description) ==
    [id |-> id, title |-> title, description |-> description, status |-> "Pending"]

\* a mark_completed that treats Deleted as final
Task_mark_completed_unless_deleted(task) ==
    IF task.status = "Deleted" THEN task ELSE [task EXCEPT !.status = "Completed"]

\* a mark_completed that flips a Completed task back
Task_mark_completed_toggling(task) ==
    [task EXCEPT !.status = IF @ = "Completed" THEN "Pending" ELSE "Completed"]

\* Task::mark_completed
Task_mark_completed(task) == [task EXCEPT !.status = "Completed"]

\* Task::mark_deleted
Task_mark_deleted(task) == [task EXCEPT !.status = "Deleted"]

----------------------------------------------------------------------------
(* The map *)

EmptyMap == [k \in {} |-> [id |-> <<0, 0>>, title |-> <<>>, description |-> <<>>, status |-> "Pending"]]

\* HashMap::insert: the new value replaces an old one under the same key
MapInsert(m, k, v) == [x \in DOMAIN m \cup {k} |-> IF x = k THEN v ELSE m[x]]

\* HashMap::remove
MapRemove(m, k) == [x \in DOMAIN m \ {k} |-> m[x]]

----------------------------------------------------------------------------
(* save_to_file: the text written *)

status_str(status) ==
    CASE status = "Pending" -> PendingStr
      [] status = "Completed" -> CompletedStr
      [] status = "Deleted" -> DeletedStr

\* a format! with the description and the title in each other's place
FormatLine_swapped(task) ==
    FormatU32(task.id) \o <<"|">> \o task.description \o <<"|">> \o task.title
        \o <<"|">> \o status_str(task.status) \o <<"\n">>

\* a format! that writes a '/' for every '|' of the title and the description
FormatLine_escaping(task) ==
    LET esc(text) == [i \in 1..Len(text) |-> IF text[i] = "|" THEN "/" ELSE text[i]]
    IN  FormatU32(task.id) \o <<"|">> \o esc(task.title) \o <<"|">> \o esc(task.description)
            \o <<"|">> \o status_str(task.status) \o <<"\n">>

\* format!("{}|{}|{}|{}\n", task.id, task.title, task.description, status_str)
FormatLine(task) ==
    FormatU32(task.id) \o <<"|">> \o task.title \o <<"|">> \o task.description
        \o <<"|">> \o status_str(task.status) \o <<"\n">>

\* HashMap::values() visits the tasks in an order the program does not control
Orders(m) ==
    LET n == Cardinality(DOMAIN m)
    IN  {o \in [1..n -> DOMAIN m] : \A i, j \in 1..n : o[i] = o[j] => i = j}

\* The visiting order of map m, which insert(k, _) has just produced from a map visited in
\* order o: a key that was present keeps its place (its value is replaced where it is); a
\* new key lands where its hash puts it, and a resize may move the others as well.
OrdersAfterInsert(o, m, k) == IF \E i \in 1..Len(o) : o[i] = k THEN {o} ELSE Orders(m)

\* the visiting order after remove(k): the other keys stay where they are
OrderAfterRemove(o, k) == SelectSeq(o, LAMBDA x : x # k)

RECURSIVE Serialize(_, _, _)
\* the lines write_all is called with, in visiting order o, from position i
Serialize(m, o, i) ==
    IF i > Len(o) THEN <<>> ELSE FormatLine(m[o[i]]) \o Serialize(m, o, i + 1)

----------------------------------------------------------------------------
(* load_from_file: the text read *)

\* one line without its terminator: "\n", or "\r\n"
StripCR(l) == IF l # <<>> /\ l[Len(l)] = "\r" THEN SubSeq(l, 1, Len(l) - 1) ELSE l

RECURSIVE LinesRec(_, _, _)
LinesRec(s, i, cur) ==
    IF i > Len(s) THEN (IF cur = <<>> THEN <<>> ELSE <<cur>>)
    ELSE IF s[i] = "\n" THEN <<StripCR(cur)>> \o LinesRec(s, i + 1, <<>>)
    ELSE LinesRec(s, i + 1, Append(cur, s[i]))

\* str::lines
Lines(contents) == LinesRec(contents, 1, <<>>)

RECURSIVE SplitRec(_, _, _)
SplitRec(s, i, cur) ==
    IF i > Len(s) THEN <<cur>>
    ELSE IF s[i] = "|" THEN <<cur>> \o SplitRec(s, i + 1, <<>>)
    ELSE SplitRec(s, i + 1, Append(cur, s[i]))

\* line.split('|').collect()
Split(line) == SplitRec(line, 1, <<>>)

\* match parts[3] { "Pending" => .., "Completed" => .., "Deleted" => .., _ => continue }
ParseStatus(tok) ==
    CASE tok = PendingStr -> [ok |-> TRUE, status |-> "Pending"]
      [] tok = CompletedStr -> [ok |-> TRUE, status |-> "Completed"]
      [] tok = DeletedStr -> [ok |-> TRUE, status |-> "Deleted"]
      [] OTHER -> [ok |-> FALSE, status |-> "Pending"]

\* the body of the `for line in lines` loop, on the store so far
LoadLine(st, line, checks) ==
    LET parts == Split(line)
        id == ParseU32(parts[1])
        status == ParseStatus(parts[4])
        task == [id |-> id.val, title |-> parts[2], description |-> parts[3],
                 status |-> status.status]
    IN  IF Len(parts) # 4 \/ ~id.ok \/ ~status.ok THEN st
        ELSE IF id.val = U32_MAX /\ checks
             THEN [st EXCEPT !.tasks = MapInsert(st.tasks, id.val, task),
                             !.loaded = st.loaded \cup {id.val},
                             !.panicked = TRUE]
             ELSE [st EXCEPT !.tasks = MapInsert(st.tasks, id.val, task),
                             !.loaded = st.loaded \cup {id.val},
                             !.next_id = U32Max(st.next_id, WrappingSucc(id.val))]

RECURSIVE LoadLines(_, _, _, _)
LoadLines(st, lines, i, checks) ==
    IF i > Len(lines) \/ st.panicked THEN st
    ELSE LoadLines(LoadLine(st, lines[i], checks), lines, i + 1, checks)

\* TaskManager::new before load_from_file runs
FreshStore == [tasks |-> EmptyMap, next_id |-> U32Of(1), loaded |-> {}, panicked |-> FALSE]

\* a load that goes on to the lines after a failed read
load_from_file_reading_on(f, readable, checks) ==
    IF ~f.exists THEN FreshStore
    ELSE LoadLines(FreshStore, Lines(f.contents), 1, checks)

\* load_from_file on a fresh store; readable = the open and the read both succeed
load_from_file(f, readable, checks) ==
    IF ~f.exists \/ ~readable THEN FreshStore
    ELSE LoadLines(FreshStore, Lines(f.contents), 1, checks)

----------------------------------------------------------------------------
(* Inputs: what the backing file holds before the first run, and the texts  *)
(* the caller passes to add_task                                            *)

\* a malformed line, then a valid one
ScenarioText ==
    <<"2", "|", "B", "a", "d", "|", "R", "o", "w", "\n", "3", "|", "O", "k",
      "|", "D", "e", "s", "c", "|", "P", "e", "n", "d", "i", "n", "g", "\n">>

\* the largest u32 as an id
MaxIdText ==
    <<"4", "2", "9", "4", "9", "6", "7", "2", "9", "5", "|", "a", "|", "b",
      "|", "P", "e", "n", "d", "i", "n", "g", "\n">>

\* ids 0 and 2^32 - 2: next_id is loaded as the largest u32
NearMaxIdText ==
    <<"0", "|", "a", "|", "b", "|", "P", "e", "n", "d", "i", "n", "g", "\n",
      "4", "2", "9", "4", "9", "6", "7", "2", "9", "4", "|", "a", "|", "b",
      "|", "C", "o", "m", "p", "l", "e", "t", "e", "d", "\n">>

\* an id one past the u32 range, then "+7" with a CR LF ending
RangeText ==
    <<"4", "2", "9", "4", "9", "6", "7", "2", "9", "6", "|", "a", "|", "b",
      "|", "P", "e", "n", "d", "i", "n", "g", "\n", "+", "7", "|", "a", "|",
      "|", "D", "e", "l", "e", "t", "e", "d", "\r", "\n">>

\* the same id twice
DuplicateText ==
    <<"1", "|", "a", "|", "b", "|", "P", "e", "n", "d", "i", "n", "g", "\n",
      "2", "|", "c", "|", "d", "|", "P", "e", "n", "d", "i", "n", "g", "\n",
      "1", "|", "c", "|", "d", "|", "C", "o", "m", "p", "l", "e", "t", "e",
      "d", "\n">>

\* the largest u32 as an id, twice
DuplicateMaxText ==
    <<"4", "2", "9", "4", "9", "6", "7", "2", "9", "5", "|", "a", "|", "b",
      "|", "P", "e", "n", "d", "i", "n", "g", "\n",
      "4", "2", "9", "4", "9", "6", "7", "2", "9", "5", "|", "c", "|", "d",
      "|", "D", "e", "l", "e", "t", "e", "d", "\n">>

\* only the last line, which has no terminator, is well formed
MalformedText ==
    <<"x", "|", "a", "|", "b", "|", "P", "e", "n", "d", "i", "n", "g", "\n",
      "1", "|", "a", "|", "b", "|", "D", "o", "n", "e", "\n", "5", "|", "a",
      "|", "b", "|", "c", "|", "P", "e", "n", "d", "i", "n", "g", "\n", "\n",
      "-", "0", "|", "a", "|", "b", "|", "P", "e", "n", "d", "i", "n", "g",
      "\n", "|", "a", "|", "b", "|", "P", "e", "n", "d", "i", "n", "g", "\n",
      "0", "2", "|", "a", "|", "b", "|", "D", "e", "l", "e", "t", "e", "d">>

NoFile == [exists |-> FALSE, contents |-> <<>>]

FileOf(contents) == [exists |-> TRUE, contents |-> contents]

InitFiles ==
    {NoFile, FileOf(<<>>), FileOf(ScenarioText), FileOf(MaxIdText), FileOf(NearMaxIdText),
     FileOf(RangeText), FileOf(DuplicateText), FileOf(DuplicateMaxText), FileOf(MalformedText)}

\* the files the runs with I/O failures start from
InitFilesIO == {NoFile, FileOf(ScenarioText)}

\* <<title, description>> pairs: an empty title, a title with the field separator
\* and an empty description, a description with a line feed
Inputs ==
    {<<(<<>>), (<<"b">>)>>, <<(<<"a", "|">>), (<<>>)>>, <<(<<"a">>), (<<"\n", "b">>)>>}

\* the texts the file format can hold
PlainInputs ==
    {in \in Inputs : \A i \in 1..2 : \A j \in 1..Len(in[i]) : in[i][j] \notin {"|", "\n"}}

\* an id no task of the model has
AbsentId == U32Of(99)

----------------------------------------------------------------------------
(* save_to_file: what it leaves in the file *)

RECURSIVE Written(_, _, _)
\* the text of the first k lines in visiting order o
Written(m, o, k) == IF k = 0 THEN <<>> ELSE Written(m, o, k - 1) \o FormatLine(m[o[k]])

\* How many bytes of a line a failing write_all may have written before it fails:
\* any number short of the whole line; the model takes none, one, and all but the
\* line feed.
CutPoints(line) == {0, 1, Len(line) - 1}

\* what a write failure on the k-th line leaves in the file
PartialWrites(m, o, k) ==
    {Written(m, o, k - 1) \o SubSeq(FormatLine(m[o[k]]), 1, j) : j \in CutPoints(FormatLine(m[o[k]]))}

\* a save that opens the file for appending instead of truncating it
save_to_file_appending(m, o, f, mayFail) ==
    {[file |-> FileOf(f.contents \o Serialize(m, o, 1)), io |-> "saved"]}
    \cup (IF mayFail THEN {[file |-> f, io |-> "open_failed"]} ELSE {})
    \cup (IF mayFail
          THEN UNION {{[file |-> FileOf(f.contents \o p), io |-> "write_failed"] :
                          p \in PartialWrites(m, o, k)} : k \in 1..Len(o)}
          ELSE {})

RECURSIVE JoinLines(_, _)
JoinLines(ls, i) == IF i > Len(ls) THEN <<>> ELSE ls[i] \o <<"\n">> \o JoinLines(ls, i + 1)

\* a save that keeps the lines of the file whose id is not a key of the map
save_to_file_merging(m, o, f, mayFail) ==
    LET foreign(l) == ParseU32(Split(l)[1]).ok /\ ParseU32(Split(l)[1]).val \notin DOMAIN m
        kept == SelectSeq(Lines(f.contents), foreign)
    IN  {[file |-> FileOf(JoinLines(kept, 1) \o Serialize(m, o, 1)), io |-> "saved"]}

\* a save that opens the file without truncating it: what the new text does not cover of
\* the old one stays
save_to_file_overwriting(m, o, f, mayFail) ==
    LET over(new) == new \o SubSeq(f.contents, Len(new) + 1, Len(f.contents))
    IN  {[file |-> FileOf(over(Serialize(m, o, 1))), io |-> "saved"]}
        \cup (IF mayFail THEN {[file |-> f, io |-> "open_failed"]} ELSE {})
        \cup (IF mayFail
              THEN UNION {{[file |-> FileOf(over(p)), io |-> "write_failed"] :
                              p \in PartialWrites(m, o, k)} : k \in 1..Len(o)}
              ELSE {})

\* a save that removes the file when a write fails
save_to_file_unlinking(m, o, f, mayFail) ==
    {[file |-> FileOf(Serialize(m, o, 1)), io |-> "saved"]}
    \cup (IF mayFail THEN {[file |-> f, io |-> "open_failed"]} ELSE {})
    \cup (IF mayFail /\ Len(o) > 0
          THEN {[file |-> [exists |-> FALSE, contents |-> <<>>], io |-> "write_failed"]}
          ELSE {})

\* The results save_to_file can have on map m, visited in order o, and file f.  The
\* open truncates the file; a failed open leaves it as it was; a failed write_all leaves
\* the bytes written before it.  mayFail: an I/O failure is among the outcomes.
save_to_file(m, o, f, mayFail) ==
    {[file |-> FileOf(Serialize(m, o, 1)), io |-> "saved"]}
    \cup (IF mayFail THEN {[file |-> f, io |-> "open_failed"]} ELSE {})
    \cup (IF mayFail
          THEN UNION {{[file |-> FileOf(p), io |-> "write_failed"] :
                          p \in PartialWrites(m, o, k)} : k \in 1..Len(o)}
          ELSE {})

Fault(io) == IF io \in {"open_failed", "write_failed", "unreadable"} THEN 1 ELSE 0

----------------------------------------------------------------------------
(* The operations *)

\* what `last` records of an operation: its name, the id it was given (add_task: the id
\* it assigned), add_task's <<title, description>> (list_tasks: the lines it printed),
\* whether the id was found, how the file access ended, and the status the task had
\* before a mark
Op(op, id, args, found, io, was) ==
    [op |-> op, id |-> id, args |-> args, found |-> found, io |-> io, was |-> was]

\* the process is gone: an overflow check failed
Panic(op, id) ==
    /\ pc' = "panicked"
    /\ tasks' = EmptyMap
    /\ next_id' = U32Of(1)
    /\ order' = <<>>
    /\ inserted' = {}
    /\ removed' = {}
    /\ failed' = {}
    /\ last' = Op(op, id, <<>>, FALSE, "none", "none")
    /\ UNCHANGED load_io

\* TaskManager::new on file f
Construct(f, readable, checks) ==
    LET st == load_from_file(f, readable, checks)
        io == IF ~f.exists THEN "absent" ELSE IF readable THEN "read" ELSE "unreadable"
    IN  IF st.panicked
        THEN [pc |-> "panicked", tasks |-> EmptyMap, next_id |-> U32Of(1),
              inserted |-> {}, last |-> Op("new", <<0, 0>>, <<>>, FALSE, io, "none")]
        ELSE [pc |-> "running", tasks |-> st.tasks, next_id |-> st.next_id,
              inserted |-> st.loaded, last |-> Op("new", <<0, 0>>, <<>>, FALSE, io, "none")]

\* no second process
NoOther ==
    [inst |-> 0, pc |-> "none", tasks |-> EmptyMap, next_id |-> U32Of(1), order |-> <<>>,
     inserted |-> {}, removed |-> {}]

\* the first run, on file f, in an environment that fails `budget` I/O calls
Start(f, budget) ==
    /\ overflow_checks \in BOOLEAN
    /\ file = f
    /\ issued = {}
    /\ removed = {}
    /\ failed = {}
    /\ \E readable \in BOOLEAN :
          /\ readable \/ (f.exists /\ budget > 0)
          /\ LET c == Construct(f, readable, overflow_checks)
             IN  /\ pc = c.pc
                 /\ tasks = c.tasks
                 /\ next_id = c.next_id
                 /\ order \in Orders(c.tasks)
                 /\ inserted = c.inserted
                 /\ last = c.last
                 /\ load_io = c.last.io
                 /\ fault_budget = budget - Fault(c.last.io)

\* every I/O call succeeds
Init == other = NoOther /\ \E f \in InitFiles : Start(f, 0)

\* the environment fails up to MaxFaults opens, reads or writes
InitIO == other = NoOther /\ \E f \in InitFilesIO : Start(f, MaxFaults)

\* the program is run again (after exit, or after a panic) on the file as it is
TaskManager_new ==
    \E readable \in BOOLEAN :
        /\ readable \/ (file.exists /\ fault_budget > 0)
        /\ LET c == Construct(file, readable, overflow_checks)
           IN  /\ pc' = c.pc
               /\ tasks' = c.tasks
               /\ next_id' = c.next_id
               /\ order' \in Orders(c.tasks)
               /\ inserted' = c.inserted
               /\ last' = c.last
               /\ load_io' = c.last.io
               /\ fault_budget' = fault_budget - Fault(c.last.io)
        /\ removed' = {}
        /\ failed' = {}
        /\ UNCHANGED <<overflow_checks, file, issued, other>>

add_task(title, description) ==
    /\ pc = "running"
    /\ Cardinality(issued \cup {next_id}) <= MaxCreates
    /\ Cardinality(DOMAIN tasks) < MaxTasks
    /\ issued' = issued \cup {next_id}
    /\ IF next_id = U32_MAX /\ overflow_checks
       THEN /\ Panic("add_task", next_id)
            /\ UNCHANGED <<file, fault_budget>>
       ELSE \E o \in OrdersAfterInsert(order, MapInsert(tasks, next_id, Task_new(next_id, title, description)),
                                        next_id) :
            \E out \in save_to_file(MapInsert(tasks, next_id, Task_new(next_id, title, description)),
                                    o, file, fault_budget > 0) :
               /\ tasks' = MapInsert(tasks, next_id, Task_new(next_id, title, description))
               /\ order' = o
               /\ next_id' = WrappingSucc(next_id)
               /\ file' = out.file
               /\ fault_budget' = fault_budget - Fault(out.io)
               /\ failed' = IF Fault(out.io) = 1 THEN failed \cup {next_id} ELSE failed
               /\ inserted' = inserted \cup {next_id}
               /\ last' = Op("add_task", next_id, <<title, description>>, TRUE, out.io, "none")
               /\ UNCHANGED <<pc, removed>>
    /\ UNCHANGED <<overflow_checks, load_io, other>>

\* a not-found branch that saves all the same
NotFound_saving(op, task_id) ==
    /\ last' = Op(op, task_id, <<>>, FALSE, "none", "none")
    /\ \E out \in save_to_file(tasks, order, file, FALSE) : file' = out.file
    /\ UNCHANGED <<overflow_checks, pc, tasks, next_id, order, issued, inserted, removed, load_io,
                   failed, fault_budget, other>>

\* the else branch of mark_completed, mark_deleted and delete_task: a message, nothing else
NotFound(op, task_id) ==
    /\ last' = Op(op, task_id, <<>>, FALSE, "none", "none")
    /\ UNCHANGED <<overflow_checks, pc, tasks, next_id, order, file, issued, inserted, removed,
                   load_io, failed, fault_budget, other>>

\* one println! of list_tasks: the id, the title and the status word it shows
ListLine(task) == <<task.id, task.title, task.status>>

\* a listing that leaves out the tasks marked Deleted
Printed_hiding_deleted(m, o) ==
    LET shown == SelectSeq(o, LAMBDA k : m[k].status # "Deleted")
    IN  [i \in 1..Len(shown) |-> ListLine(m[shown[i]])]

\* what list_tasks prints for map m visited in order o: a line for every value
Printed(m, o) == [i \in 1..Len(o) |-> ListLine(m[o[i]])]

list_tasks ==
    /\ pc = "running"
    /\ last' = Op("list_tasks", <<0, 0>>, Printed(tasks, order), FALSE, "none", "none")
    /\ UNCHANGED <<overflow_checks, pc, tasks, next_id, order, file, issued, inserted, removed,
                   load_io, failed, fault_budget, other>>

mark_completed(task_id) ==
    /\ pc = "running"
    /\ IF task_id \in DOMAIN tasks
       THEN \E out \in save_to_file([tasks EXCEPT ![task_id] = Task_mark_completed(@)],
                                    order, file, fault_budget > 0) :
               /\ tasks' = [tasks EXCEPT ![task_id] = Task_mark_completed(@)]
               /\ file' = out.file
               /\ fault_budget' = fault_budget - Fault(out.io)
               /\ failed' = IF Fault(out.io) = 1 THEN failed \cup {task_id} ELSE failed
               /\ last' = Op("mark_completed", task_id, <<>>, TRUE, out.io, tasks[task_id].status)
               /\ UNCHANGED <<overflow_checks, pc, next_id, order, issued, inserted, removed, load_io,
                              other>>
       ELSE NotFound("mark_completed", task_id)

mark_deleted(task_id) ==
    /\ pc = "running"
    /\ IF task_id \in DOMAIN tasks
       THEN \E out \in save_to_file([tasks EXCEPT ![task_id] = Task_mark_deleted(@)],
                                    order, file, fault_budget > 0) :
               /\ tasks' = [tasks EXCEPT ![task_id] = Task_mark_deleted(@)]
               /\ file' = out.file
               /\ fault_budget' = fault_budget - Fault(out.io)
               /\ failed' = IF Fault(out.io) = 1 THEN failed \cup {task_id} ELSE failed
               /\ last' = Op("mark_deleted", task_id, <<>>, TRUE, out.io, tasks[task_id].status)
               /\ UNCHANGED <<overflow_checks, pc, next_id, order, issued, inserted, removed, load_io,
                              other>>
       ELSE NotFound("mark_deleted", task_id)

delete_task(task_id) ==
    /\ pc = "running"
    /\ IF task_id \in DOMAIN tasks
       THEN \E out \in save_to_file(MapRemove(tasks, task_id), OrderAfterRemove(order, task_id),
                                    file, fault_budget > 0) :
               /\ tasks' = MapRemove(tasks, task_id)
               /\ order' = OrderAfterRemove(order, task_id)
               /\ file' = out.file
               /\ fault_budget' = fault_budget - Fault(out.io)
               /\ failed' = IF Fault(out.io) = 1 THEN failed \cup {task_id} ELSE failed
               /\ removed' = removed \cup {task_id}
               /\ last' = Op("delete_task", task_id, <<>>, TRUE, out.io, "none")
               /\ UNCHANGED <<overflow_checks, pc, next_id, issued, inserted, load_io, other>>
       ELSE NotFound("delete_task", task_id)

\* The operating system lets the other process run: the store of the process at work is
\* set aside as it is and the other one's is taken up.  Neither store changes, and the
\* file is the one both share.
Switch ==
    /\ other.pc # "none"
    /\ pc' = other.pc
    /\ tasks' = other.tasks
    /\ next_id' = other.next_id
    /\ order' = other.order
    /\ inserted' = other.inserted
    /\ removed' = other.removed
    /\ other' = [inst |-> 3 - other.inst, pc |-> pc, tasks |-> tasks, next_id |-> next_id,
                 order |-> order, inserted |-> inserted, removed |-> removed]
    /\ last' = Op("switch", <<0, 0>>, <<>>, FALSE, "none", "none")
    /\ UNCHANGED <<overflow_checks, file, issued, load_io, failed, fault_budget>>

\* the ids the caller may pass: the present ones and an absent one
IdArgs == DOMAIN tasks \cup {AbsentId}

\* main's loop: one menu choice at a time, add_task's texts taken from `texts`
NextWith(texts) ==
    \/ TaskManager_new
    \/ \E in \in texts : add_task(in[1], in[2])
    \/ list_tasks
    \/ \E task_id \in IdArgs : mark_completed(task_id)
    \/ \E task_id \in IdArgs : mark_deleted(task_id)
    \/ \E task_id \in IdArgs : delete_task(task_id)

Next == NextWith(Inputs)

Spec == Init /\ [][Next]_vars

SpecIO == InitIO /\ [][Next]_vars

\* a first installation (no backing file) used as the format expects: no '|' and no line
\* feed in any text, every I/O call succeeding
SpecFresh == other = NoOther /\ Start(NoFile, 0) /\ [][NextWith(PlainInputs)]_vars

\* the texts without a line feed, which is what main's read_line and trim can pass
LineInputs == {in \in Inputs : \A i \in 1..2 : \A j \in 1..Len(in[i]) : in[i][j] # "\n"}

\* two processes are started on the same file, one after the other, before either has
\* saved; every I/O call succeeds
InitTwo ==
    /\ Start(NoFile, 0)
    /\ \E o \in Orders(tasks) :
          other = [inst |-> 2, pc |-> pc, tasks |-> tasks, next_id |-> next_id, order |-> o,
                   inserted |-> inserted, removed |-> removed]

\* each process runs main's loop; an operation of one process runs to its end before the
\* next operation of the other begins
NextTwo ==
    \/ Switch
    \/ \E in \in LineInputs : add_task(in[1], in[2])
    \/ list_tasks
    \/ \E task_id \in IdArgs : mark_completed(task_id)
    \/ \E task_id \in IdArgs : mark_deleted(task_id)
    \/ \E task_id \in IdArgs : delete_task(task_id)

SpecTwo == InitTwo /\ [][NextTwo]_vars

----------------------------------------------------------------------------
(* Properties *)

Running == pc = "running"

MutatingOps == {"add_task", "mark_completed", "mark_deleted", "delete_task"}

LookupOps == {"mark_completed", "mark_deleted", "delete_task"}

HasChar(text, c) == \E i \in 1..Len(text) : text[i] = c

\* no task text holds the field separator or a line feed
CleanText(m) ==
    \A k \in DOMAIN m :
        /\ ~HasChar(m[k].title, "|") /\ ~HasChar(m[k].title, "\n")
        /\ ~HasChar(m[k].description, "|") /\ ~HasChar(m[k].description, "\n")

\* the store a fresh TaskManager::new builds from the text a save of m in order o writes
Reloaded(m, o) == load_from_file(FileOf(Serialize(m, o, 1)), TRUE, overflow_checks)

SameTasks(m1, m2) ==
    /\ DOMAIN m1 = DOMAIN m2
    /\ \A k \in DOMAIN m1 :
          /\ m1[k].title = m2[k].title
          /\ m1[k].description = m2[k].description
          /\ m1[k].status = m2[k].status

\* C1, as claimed: whatever operations built the store, and in whatever order the save
\* writes the lines, loading the saved text into a fresh store gives the same ids and
\* for each id the same title, description and status.
C1_RoundTripAnyText ==
    Running =>
        \A o \in Orders(tasks) : ~Reloaded(tasks, o).panicked /\ SameTasks(Reloaded(tasks, o).tasks, tasks)

\* C1, amended: the same, for stores none of whose titles and descriptions holds a '|'
\* or a line feed.
C1_RoundTrip ==
    (Running /\ CleanText(tasks)) =>
        \A o \in Orders(tasks) : ~Reloaded(tasks, o).panicked /\ SameTasks(Reloaded(tasks, o).tasks, tasks)

\* C1 witness: a store that was itself loaded from a file an earlier run saved, holding two
\* tasks, one of them created by add_task and marked since.
C1_Witness ==
    /\ Running /\ last.op = "new" /\ last.io = "read"
    /\ Cardinality(DOMAIN tasks) = 2
    /\ CleanText(tasks)
    /\ \E k \in issued \cap DOMAIN tasks : tasks[k].status # "Pending"

\* C2: next_id is strictly greater than every id add_task ever assigned, in this run of the
\* program and in the runs before it (hard-deleted ids included).
C2_IdMonotonic == Running => \A k \in issued : U32Lt(k, next_id)

\* C3: an id delete_task removed from this store is absent from the map in every later
\* state, and no later add_task assigns it; after ids 1 and 2 are created on an empty store
\* and 1 is hard-deleted, the next add_task assigns 3.
C3_HardDeleteNeverReused ==
    Running =>
        /\ \A k \in removed : k \notin DOMAIN tasks
        /\ (last.op = "add_task" => last.id \notin removed)
        /\ (/\ last.op = "add_task" /\ removed = {U32Of(1)}
            /\ inserted = {U32Of(1), U32Of(2), last.id} /\ last.id \notin {U32Of(1), U32Of(2)}
            => last.id = U32Of(3))

\* C4: when a mutating operation has returned and its save met no I/O failure, the file
\* exists and holds exactly the lines of the tasks now in the map, each once, in some order.
C4_FileIsTheMap ==
    (Running /\ last.op \in MutatingOps /\ last.io = "saved") =>
        /\ file.exists
        /\ \E o \in Orders(tasks) : file.contents = Serialize(tasks, o, 1)

\* C4 witness: a hard delete was saved after an earlier save had failed, and tasks remain.
C4_Witness ==
    /\ Running /\ last.op = "delete_task" /\ last.io = "saved"
    /\ fault_budget = 0
    /\ DOMAIN tasks # {}

\* C5: a mark or a hard delete of an id that is not a key of the map changes neither the
\* map, nor next_id, nor the file, and the store goes on running.
C5_NotFoundChangesNothing ==
    [][(last'.op \in LookupOps /\ pc = "running" /\ last'.id \notin DOMAIN tasks) =>
          /\ ~last'.found /\ last'.io = "none"
          /\ tasks' = tasks /\ next_id' = next_id /\ file' = file /\ pc' = "running"]_vars

\* C5 witness: a not-found mark_completed on a store that holds tasks and whose file differs
\* from the map (its last save failed).
C5_Witness ==
    /\ Running /\ last.op = "mark_completed" /\ ~last.found /\ last.id = AbsentId
    /\ DOMAIN tasks # {}
    /\ file.exists
    /\ \A o \in Orders(tasks) : file.contents # Serialize(tasks, o, 1)

\* the file after a save of map m that met no failure
SavedFiles(m) == {FileOf(Serialize(m, o, 1)) : o \in Orders(m)}

\* C6: add_task succeeds in every state of a running store: the new task is inserted under
\* the id next_id had, Pending, with the texts given; next_id grows by exactly one; every
\* other task stays as it was; the map is saved.  On an empty store without a file the id
\* is 1 and the file then holds the one line 1|title|description|Pending.
C6_CreateAlwaysSucceeds ==
    [][(pc = "running" /\ last'.op = "add_task") =>
          /\ pc' = "running"
          /\ last'.id = next_id
          /\ next_id \notin DOMAIN tasks
          /\ tasks' = MapInsert(tasks, next_id,
                                [id |-> next_id, title |-> last'.args[1],
                                 description |-> last'.args[2], status |-> "Pending"])
          /\ next_id' = MathSucc(next_id)
          /\ file' \in SavedFiles(tasks')
          /\ (DOMAIN tasks = {} /\ ~file.exists /\ inserted = {} =>
                /\ last'.id = U32Of(1)
                /\ file'.contents = <<"1", "|">> \o last'.args[1] \o <<"|">> \o last'.args[2]
                                        \o <<"|">> \o PendingStr \o <<"\n">>)]_vars

StatusTokens == {PendingStr, CompletedStr, DeletedStr}

StripPlus(text) == IF text # <<>> /\ text[1] = "+" THEN Tail(text) ELSE text

RECURSIVE StripZeros(_)
StripZeros(text) == IF Len(text) > 1 /\ text[1] = "0" THEN StripZeros(Tail(text)) ELSE text

\* the text is a non-negative integer in decimal: digits, after an optional '+'
IsIntegerText(text) ==
    /\ StripPlus(text) # <<>>
    /\ \A i \in 1..Len(StripPlus(text)) : IsDigit(StripPlus(text)[i])

\* the id field `text` writes the number k
Names(text, k) == IsIntegerText(text) /\ StripZeros(StripPlus(text)) = FormatU32(k)

\* the acceptance rule as the claim words it
AcceptsAnyInteger(line) ==
    /\ Len(Split(line)) = 4
    /\ IsIntegerText(Split(line)[1])
    /\ Split(line)[4] \in StatusTokens

\* the line gives task t
LineGives(line, t) ==
    /\ Names(Split(line)[1], t.id)
    /\ Split(line)[2] = t.title
    /\ Split(line)[3] = t.description
    /\ Split(line)[4] = status_str(t.status)

\* the map holds a task for every line of the file the rule accepts, and only tasks such
\* a line gives
LoadedExactly ==
    LET ls == Lines(file.contents)
    IN  /\ \A i \in 1..Len(ls) :
              AcceptsAnyInteger(ls[i]) => \E k \in DOMAIN tasks : Names(Split(ls[i])[1], k)
        /\ \A k \in DOMAIN tasks :
              /\ tasks[k].id = k
              /\ \E i \in 1..Len(ls) : AcceptsAnyInteger(ls[i]) /\ LineGives(ls[i], tasks[k])

FileWasRead == last.op = "new" /\ last.io = "read"

\* C7: a load that reads the file ends with a running store that holds a task for a line if
\* and only if the line has exactly four '|'-separated fields, the first a non-negative
\* integer and the fourth Pending, Completed or Deleted; other lines are passed over and the
\* load goes on.  The file "2|Bad|Row", "3|Ok|Desc|Pending" gives exactly task 3, next_id 4.
C7_LoadAcceptsWellFormedLines ==
    FileWasRead =>
        /\ Running
        /\ LoadedExactly
        /\ (file.contents = ScenarioText => DOMAIN tasks = {U32Of(3)} /\ next_id = U32Of(4))

\* the largest id of a non-empty set
MaxOf(ids) == CHOOSE k \in ids : \A j \in ids : ~U32Lt(k, j)

\* 1 + the largest id of the set as a mathematical integer, 1 for the empty set
OnePastMax(ids) == IF ids = {} THEN U32Of(1) ELSE MathSucc(MaxOf(ids))

\* C8: after a load, next_id is 1 when the file is absent or no line was accepted, and
\* otherwise exactly one more than the largest accepted id, up to the id 4294967295.
C8_NextIdAfterLoad ==
    (last.op = "new" /\ last.io \in {"read", "absent"}) =>
        /\ Running
        /\ next_id = OnePastMax(inserted)

\* C9: in every state of a running store, next_id is 1 + the largest of the ids loaded at
\* construction and the ids add_task inserted since (hard-deleted ones included), and 1 when
\* there are none.
C9_NextIdIsOnePastMax == Running => next_id = OnePastMax(inserted)

\* C10: on a task in the map, mark_completed sets the status Completed and mark_deleted sets
\* it Deleted whatever the status was; the task keeps its key, id, title and description and
\* no other task changes.
C10_NoStatusIsTerminal ==
    [][(pc = "running" /\ last'.op \in {"mark_completed", "mark_deleted"}
            /\ last'.id \in DOMAIN tasks) =>
          /\ pc' = "running"
          /\ last'.found
          /\ tasks' = [tasks EXCEPT ![last'.id].status =
                          IF last'.op = "mark_completed" THEN "Completed" ELSE "Deleted"]]_vars

\* C10 witness: a task that was Deleted has just been marked Completed, in a store that
\* holds another task, which is Deleted.
C10_Witness ==
    /\ Running /\ last.op = "mark_completed" /\ last.found /\ last.was = "Deleted"
    /\ tasks[last.id].status = "Completed"
    /\ \E k \in DOMAIN tasks \ {last.id} : tasks[k].status = "Deleted"

\* the marking operations
MarkOps == {"mark_completed", "mark_deleted"}

\* C11: when mark_completed (mark_deleted) of a present id has just been carried out and
\* saved, carrying out the same call again changes nothing: the map, next_id and the file
\* contents after the second call are those after the first.
C11_MarkIdempotent ==
    [][(/\ pc = "running" /\ last.op \in MarkOps /\ last.found /\ last.io = "saved"
        /\ last'.op = last.op /\ last'.id = last.id /\ last'.io = "saved") =>
          /\ last'.found
          /\ tasks' = tasks /\ next_id' = next_id /\ file' = file /\ pc' = "running"]_vars

\* C11 witness: mark_deleted has just been called on a task that was Deleted already, in a
\* store that holds a second task, and the file is the one the call before it wrote.
C11_Witness ==
    /\ Running /\ last.op = "mark_deleted" /\ last.found /\ last.io = "saved"
    /\ last.was = "Deleted" /\ tasks[last.id].status = "Deleted"
    /\ Cardinality(DOMAIN tasks) = 2
    /\ file.contents = Serialize(tasks, order, 1)

\* C12: list_tasks prints one line for every task in the map, with its id, title and status,
\* the tasks marked Deleted among them, and nothing else; it changes neither the map, nor
\* next_id, nor the file.
C12_ListShowsAllReadOnly ==
    [][(pc = "running" /\ last'.op = "list_tasks") =>
          /\ tasks' = tasks /\ next_id' = next_id /\ file' = file /\ pc' = "running"
          /\ Len(last'.args) = Cardinality(DOMAIN tasks)
          /\ \A k \in DOMAIN tasks :
                \E i \in 1..Len(last'.args) : last'.args[i] = <<k, tasks[k].title, tasks[k].status>>]_vars

\* C12 witness: a listing of two tasks, one of them shown as Deleted, the other not.
C12_Witness ==
    /\ Running /\ last.op = "list_tasks" /\ Len(last.args) = 2
    /\ \E i, j \in 1..2 : last.args[i][3] = "Deleted" /\ last.args[j][3] # "Deleted"
    /\ \E k \in DOMAIN tasks : tasks[k].status = "Deleted"

SaveFailures == {"open_failed", "write_failed"}

\* p is the start of s, and shorter
IsProperPrefix(p, s) == Len(p) < Len(s) /\ SubSeq(s, 1, Len(p)) = p

\* C13, as claimed: a save that fails before any byte of the new text is in the file (the
\* open failed, or the first write failed without writing) leaves the file as it was; one
\* that fails later leaves a part of the new text; either way the store goes on running.
C13_SaveFailureWindows ==
    [][(pc = "running" /\ last'.op \in MutatingOps /\ last'.io \in SaveFailures) =>
          /\ pc' = "running"
          /\ IF last'.io = "open_failed" \/ file'.contents = <<>>
             THEN file'.contents = file.contents
             ELSE file'.exists /\ IsProperPrefix(file'.contents, Serialize(tasks', order', 1))]_vars

\* C13, amended: a save whose open fails leaves the file as it was; a save whose write fails
\* leaves an existing file that holds a proper prefix of the new text, which is empty when
\* the failure came before the first byte; either way the store goes on running.
C13_SaveFailureLeaves ==
    [][(pc = "running" /\ last'.op \in MutatingOps /\ last'.io \in SaveFailures) =>
          /\ pc' = "running"
          /\ IF last'.io = "open_failed"
             THEN file' = file
             ELSE file'.exists /\ IsProperPrefix(file'.contents, Serialize(tasks', order', 1))]_vars

\* C13 witness: a write failed after the first of two lines was written; the store runs on.
C13_Witness ==
    /\ Running /\ last.op \in MutatingOps /\ last.io = "write_failed"
    /\ Cardinality(DOMAIN tasks) = 2
    /\ \E n \in 1..Len(file.contents) :
          /\ SubSeq(file.contents, 1, n) = FormatLine(tasks[order[1]])
          /\ n < Len(file.contents)

\* sub occurs in s as a run of consecutive characters
Occurs(sub, s) == \E i \in 1..(Len(s) - Len(sub) + 1) : SubSeq(s, i, i + Len(sub) - 1) = sub

HasPipe(task) == HasChar(task.title, "|") \/ HasChar(task.description, "|")

CleanTask(task) ==
    /\ ~HasChar(task.title, "|") /\ ~HasChar(task.title, "\n")
    /\ ~HasChar(task.description, "|") /\ ~HasChar(task.description, "\n")

\* C14: an add_task whose title or description holds a '|' stores the texts as given and
\* the save writes them as given, the '|' included; when the program is next started on the
\* file, the map does not hold that task as it was, while every task whose texts hold
\* neither '|' nor a line feed is loaded as it was.
C14_PipeCorruptsOnlyItsLine ==
    [][/\ (/\ pc = "running" /\ pc' = "running" /\ last'.op = "add_task"
            /\ (HasChar(last'.args[1], "|") \/ HasChar(last'.args[2], "|"))) =>
              /\ tasks'[last'.id].title = last'.args[1]
              /\ tasks'[last'.id].description = last'.args[2]
              /\ Occurs(FormatU32(last'.id) \o <<"|">> \o last'.args[1] \o <<"|">> \o last'.args[2]
                            \o <<"|">> \o PendingStr \o <<"\n">>,
                        file'.contents)
       /\ (pc = "running" /\ last'.op = "new" /\ last'.io = "read") =>
              \A k \in DOMAIN tasks :
                  /\ HasPipe(tasks[k]) => ~(k \in DOMAIN tasks' /\ tasks'[k] = tasks[k])
                  /\ CleanTask(tasks[k]) => (k \in DOMAIN tasks' /\ tasks'[k] = tasks[k])]_vars

\* C14 witness: the program was started on a file that holds the five-field line of a task
\* add_task had created with a '|' in its title; that id is not in the map, another task is.
C14_Witness ==
    /\ Running /\ last.op = "new" /\ last.io = "read"
    /\ DOMAIN tasks # {}
    /\ \E i \in 1..Len(Lines(file.contents)) :
          /\ Len(Split(Lines(file.contents)[i])) = 5
          /\ ParseU32(Split(Lines(file.contents)[i])[1]).ok
          /\ ParseU32(Split(Lines(file.contents)[i])[1]).val \in issued \ DOMAIN tasks

\* the text holds the record `line` starting at the start of a line
HasLine(contents, line) ==
    \E i \in 1..(Len(contents) - Len(line) + 1) :
        /\ SubSeq(contents, i, i + Len(line) - 1) = line
        /\ (i = 1 \/ contents[i - 1] = "\n")

\* C15: with two processes on one file and nothing to keep them apart, a save writes the
\* saving process's own map and nothing else: whatever the other process holds and the
\* saving one does not (a task it never loaded, or the same id with other contents) is not
\* in the file after the save, although the other process had saved it.
C15_LastSaverWins ==
    (Running /\ other.pc = "running" /\ last.op \in MutatingOps /\ last.io = "saved") =>
        /\ file.contents = Serialize(tasks, order, 1)
        /\ \A k \in DOMAIN other.tasks :
              (k \notin DOMAIN tasks \/ tasks[k] # other.tasks[k]) =>
                  ~HasLine(file.contents, FormatLine(other.tasks[k]))

\* C15 witness: both processes started on no file; each has created a task under id 1, with
\* different texts, and the other one has created a task 2 as well; the process at work has
\* just saved, and the file holds its task 1 only: the other's two tasks are lost.
C15_Witness ==
    /\ Running /\ other.pc = "running" /\ last.op = "add_task" /\ last.io = "saved"
    /\ last.id = U32Of(1)
    /\ DOMAIN tasks = {U32Of(1)} /\ inserted = {U32Of(1)}
    /\ DOMAIN other.tasks = {U32Of(1), U32Of(2)} /\ other.inserted = {U32Of(1), U32Of(2)}
    /\ tasks[U32Of(1)].title # other.tasks[U32Of(1)].title
    /\ file.contents = FormatLine(tasks[U32Of(1)])
    /\ \A k \in DOMAIN other.tasks : ~HasLine(file.contents, FormatLine(other.tasks[k]))

\* the map an operation that found its task (or add_task) leaves, from what `l` records of it
Effect(m, nid, l) ==
    CASE l.op = "add_task" ->
             MapInsert(m, nid, [id |-> nid, title |-> l.args[1], description |-> l.args[2],
                                status |-> "Pending"])
      [] l.op = "mark_completed" -> [m EXCEPT ![l.id].status = "Completed"]
      [] l.op = "mark_deleted" -> [m EXCEPT ![l.id].status = "Deleted"]
      [] l.op = "delete_task" -> MapRemove(m, l.id)

\* the text has a line whose first field reads as the id k
HasLineOfId(contents, k) ==
    \E i \in 1..Len(Lines(contents)) :
        ParseU32(Split(Lines(contents)[i])[1]).ok /\ ParseU32(Split(Lines(contents)[i])[1]).val = k

\* C16: an operation changes the map and next_id in the same way whether its save succeeds
\* or fails, and by what the map held before, never by what the file holds; so when a save
\* succeeds, the file is the text of the whole map as it then is: every task changed in an
\* operation whose save had failed is in the file as the map has it, and one removed in
\* such an operation has no line.
C16_FailedSaveKeptThenResynced ==
    [][(pc = "running" /\ last'.op \in MutatingOps /\ (last'.op = "add_task" \/ last'.found)) =>
          /\ pc' = "running"
          /\ tasks' = Effect(tasks, next_id, last')
          /\ next_id' = IF last'.op = "add_task" THEN MathSucc(next_id) ELSE next_id
          /\ last'.io = "saved" =>
                /\ file'.exists
                /\ file'.contents = Serialize(tasks', order', 1)
                /\ \A k \in failed' :
                      IF k \in DOMAIN tasks'
                      THEN HasLine(file'.contents, FormatLine(tasks'[k]))
                      ELSE ~HasLineOfId(file'.contents, k)]_vars

\* C16 witness: a save has just succeeded in a store where the save of an earlier change to
\* another task, which is no longer Pending, had failed; the file has that task's line.
C16_Witness ==
    /\ Running /\ last.op \in MutatingOps /\ last.io = "saved"
    /\ \E k \in (failed \cap DOMAIN tasks) \ {last.id} :
          /\ tasks[k].status # "Pending"
          /\ HasLine(file.contents, FormatLine(tasks[k]))

\* C17: a load that cannot open or read an existing file leaves the file as it is and gives
\* a running store with an empty map and next_id 1.  In that store a first add_task assigns
\* id 1, and every save that succeeds leaves in the file the text of the store's own map and
\* nothing of what the file held: after the first add_task, just that task's line.
C17_UnreadableFileStartsEmpty ==
    /\ []((last.op = "new" /\ last.io = "unreadable") =>
             (Running /\ file.exists /\ tasks = EmptyMap /\ next_id = U32Of(1)))
    /\ [][
          /\ (last'.op = "new" /\ last'.io = "unreadable") => file' = file
          /\ (pc = "running" /\ load_io = "unreadable" /\ inserted = {} /\ last'.op = "add_task") =>
                last'.id = U32Of(1)
          /\ (/\ pc = "running" /\ load_io = "unreadable"
              /\ last'.op \in MutatingOps /\ last'.io = "saved") =>
                /\ DOMAIN tasks' \subseteq inserted'
                /\ file'.contents = Serialize(tasks', order', 1)
                /\ (inserted = {} =>
                       file'.contents = <<"1", "|">> \o last'.args[1] \o <<"|">> \o last'.args[2]
                                            \o <<"|">> \o PendingStr \o <<"\n">>)
       ]_vars

\* C17 witness: the store was built by a load that could not read the file; its first
\* add_task has assigned id 1 and the file, which existed before, now holds that line alone.
C17_Witness ==
    /\ Running /\ load_io = "unreadable"
    /\ last.op = "add_task" /\ last.io = "saved" /\ last.id = U32Of(1)
    /\ inserted = {U32Of(1)}
    /\ file.contents = FormatLine(tasks[U32Of(1)])

\* C18: in a running store every key maps to a task whose id is the key, and every key is
\* below next_id; after a load of a file none of whose ids is 4294967295 (the ids in the map
\* that no add_task ever assigned are the ones a file brought), and after every add_task,
\* mark_completed, mark_deleted and delete_task that follows.
C18_KeysAreIdsBelowNextId ==
    (Running /\ U32_MAX \notin (inserted \ issued)) =>
        \A k \in DOMAIN tasks : tasks[k].id = k /\ U32Lt(k, next_id)

\* the lines of the text that load_from_file accepts: their positions
AcceptedLines(contents) ==
    {i \in 1..Len(Lines(contents)) :
        /\ Len(Split(Lines(contents)[i])) = 4
        /\ ParseU32(Split(Lines(contents)[i])[1]).ok
        /\ Split(Lines(contents)[i])[4] \in StatusTokens}

IdOfLine(contents, i) == ParseU32(Split(Lines(contents)[i])[1]).val

\* the accepted lines with id k
LinesOfId(contents, k) == {i \in AcceptedLines(contents) : IdOfLine(contents, i) = k}

\* the last of them
LastLineOfId(contents, k) ==
    CHOOSE i \in LinesOfId(contents, k) : \A j \in LinesOfId(contents, k) : j <= i

HasDuplicateIds(contents) ==
    \E i, j \in AcceptedLines(contents) : i # j /\ IdOfLine(contents, i) = IdOfLine(contents, j)

\* C19: after a load of a file in which several accepted lines have the same id, the store
\* runs and holds one task for every accepted id, with the title, description and status of
\* the last accepted line of that id; next_id is one more than the largest accepted id; and
\* the text a save writes from this map has one line for each id.
C19_DuplicateIdsLastWins ==
    (FileWasRead /\ HasDuplicateIds(file.contents)) =>
        /\ Running
        /\ DOMAIN tasks = {IdOfLine(file.contents, i) : i \in AcceptedLines(file.contents)}
        /\ \A k \in DOMAIN tasks :
              /\ tasks[k].id = k
              /\ LineGives(Lines(file.contents)[LastLineOfId(file.contents, k)], tasks[k])
              /\ Cardinality(LinesOfId(Serialize(tasks, order, 1), k)) = 1
        /\ next_id = OnePastMax(DOMAIN tasks)

\* C20: a task that is Completed or Deleted is not Pending after any step of the store in
\* which it stays in the map: an add_task, a mark or a hard delete of whatever id, a listing,
\* or a restart of the program on the file the store has saved.
C20_PendingOnlyInitial ==
    [][\A k \in DOMAIN tasks \cap DOMAIN tasks' :
          (pc = "running" /\ pc' = "running" /\ tasks[k].status # "Pending") =>
              tasks'[k].status # "Pending"]_vars

====
